---------------------------- MODULE Spec2Model ----------------------------
(***************************************************************************)
(* Road-survey visualisation script (src/app.py): one Streamlit session.   *)
(* Every run of the script loads the zip archives of assets/, merges their *)
(* detection and roughness records, builds and filters the two data        *)
(* frames, centres the map and adds one marker per detection, matching     *)
(* its frame number to a cached image.  st.session_state["images_cache"]   *)
(* is the only state that survives from one run to the next.               *)
(*                                                                         *)
(* Representation.                                                         *)
(*  - A JSON object / Python dict is a function whose DOMAIN is its keys.  *)
(*  - A DataFrame is [columns, rows]; a row is [index, data], data being   *)
(*    a function defined on the columns whose cell is not NaN.             *)
(*  - A str is a sequence of one-character strings; bytes are a sequence   *)
(*    of integers (<<>> is b"").                                           *)
(*  - A float is an integer with at most Precision significant bits; sums  *)
(*    and quotients round to nearest, ties to even, as IEEE 754 does.      *)
(***************************************************************************)
EXTENDS Integers, Sequences, FiniteSets, TLC

VARIABLES
    pc,              \* position of the script run
    uploaded_zips,   \* the archives read from assets/ in this run
    idx,             \* 1-based position of the ingestion loop
    all_detections,  \* accumulated detection dicts
    all_roughness,   \* accumulated roughness dicts
    images_cache,    \* st.session_state["images_cache"], in insertion order
    errors,          \* survey names reported by st.error (line 82)
    exception,       \* the uncaught exception that ended the run, or ""
    det_df,          \* detections DataFrame
    rough_df,        \* roughness DataFrame
    selected_surveys,
    show_detections,
    show_roughness,
    location,        \* <<center_lat, center_lon>> once computed, else <<>>
    row,             \* 1-based position of the detection marker loop
    popups           \* what each detection marker shows

vars == <<pc, uploaded_zips, idx, all_detections, all_roughness, images_cache,
          errors, exception, det_df, rough_df, selected_surveys,
          show_detections, show_roughness, location, row, popups>>

----------------------------------------------------------------------------
(* Bounds of the model.                                                    *)

\* Archives in assets/ in one run.
MaxArchives == 2

\* Significant bits of a float (IEEE 754 double has 53).
Precision == 3

\* Detection and roughness rows together, where the frames are drawn freely.
\* numpy adds fewer than 8 values one after the other.
MaxPoints == 3

\* Image files of an archive, where the files are drawn freely.
MaxFiles == 2

----------------------------------------------------------------------------
(* Sequences.                                                              *)

RECURSIVE SeqsUpTo(_, _)
SeqsUpTo(S, n) ==
    IF n = 0 THEN {<<>>}
    ELSE LET shorter == SeqsUpTo(S, n - 1)
         IN  shorter \cup {Append(s, x) : s \in {t \in shorter : Len(t) = n - 1}, x \in S}

Range(s) == {s[i] : i \in 1..Len(s)}

IsPrefix(s, t) == Len(s) <= Len(t) /\ SubSeq(t, 1, Len(s)) = s

----------------------------------------------------------------------------
(* Python str operations.                                                  *)

Lower(c) ==
    CASE c = "J" -> "j"
      [] c = "P" -> "p"
      [] c = "G" -> "g"
      [] OTHER   -> c

\* str.lower()
StrLower(s) == [i \in 1..Len(s) |-> Lower(s[i])]

\* str.endswith(suffix)
EndsWith(s, suffix) ==
    /\ Len(suffix) <= Len(s)
    /\ SubSeq(s, Len(s) - Len(suffix) + 1, Len(s)) = suffix

\* str.rstrip(chars): drops every trailing character that is in chars
RECURSIVE RStrip(_, _)
RStrip(s, chars) ==
    IF s # <<>> /\ s[Len(s)] \in chars
    THEN RStrip(SubSeq(s, 1, Len(s) - 1), chars)
    ELSE s

DigitChar(d) == <<"0", "1", "2", "3", "4", "5", "6", "7", "8", "9">>[d + 1]

\* str(int(n)) for n >= 0: the decimal digits, no leading zero
RECURSIVE Str(_)
Str(n) == IF n < 10 THEN <<DigitChar(n)>> ELSE Append(Str(n \div 10), DigitChar(n % 10))

JpgExt == <<".", "j", "p", "g">>

----------------------------------------------------------------------------
(* Floating point with Precision significant bits.                         *)

RECURSIVE Pow2(_)
Pow2(n) == IF n = 0 THEN 1 ELSE 2 * Pow2(n - 1)

\* The spacing of the floats around the positive rational num/den.  The
\* model keeps every value at or above 2^(Precision-1), where it is an integer.
Ulp(num, den) ==
    CHOOSE u \in {Pow2(e) : e \in 0..(2 * Precision)} :
        /\ u * Pow2(Precision - 1) * den <= num
        /\ num < 2 * u * Pow2(Precision - 1) * den

\* The float nearest to num/den, ties to the even significand.
FloatRound(num, den) ==
    IF num < Pow2(Precision) * den /\ num % den = 0 THEN num \div den
    ELSE LET u == Ulp(num, den)
             k == num \div (den * u)
             r == num - k * den * u
         IN  IF 2 * r < den * u THEN k * u
             ELSE IF 2 * r > den * u THEN (k + 1) * u
             ELSE IF k % 2 = 0 THEN k * u ELSE (k + 1) * u

Representable(x) == FloatRound(x, 1) = x

FloatAdd(a, b) == FloatRound(a + b, 1)

\* Series.sum(): the values added in order, each partial sum rounded
RECURSIVE FloatSum(_)
FloatSum(s) ==
    IF s = <<>> THEN 0
    ELSE FloatAdd(FloatSum(SubSeq(s, 1, Len(s) - 1)), s[Len(s)])

\* Series.mean(): the rounded sum divided by the count, rounded
FloatMean(s) == FloatRound(FloatSum(s), Len(s))

RECURSIVE ExactSum(_)
ExactSum(s) == IF s = <<>> THEN 0 ELSE s[1] + ExactSum(Tail(s))

SeqMin(s) == CHOOSE x \in Range(s) : \A y \in Range(s) : x <= y
SeqMax(s) == CHOOSE x \in Range(s) : \A y \in Range(s) : x >= y

----------------------------------------------------------------------------
(* Data of the archives.                                                   *)

CLASS_MAP ==
    (0 :> "Longitudinal Crack (D00)") @@ (1 :> "Transverse Crack (D10)") @@
    (2 :> "Alligator Crack (D20)") @@ (3 :> "Pothole (D40)")

\* Coordinates: floats of the binade [2^Precision, 2^(Precision+1)).
LatA == 3 * Pow2(Precision - 1)
LatB == 7 * Pow2(Precision - 2)
LonA == 5 * Pow2(Precision - 2)
LonB == Pow2(Precision)

Img007 == <<"i", "m", "g", "_", "0", "0", "7", ".", "j", "p", "g">>
Img112 == <<"i", "m", "g", "_", "1", "1", "2", ".", "j", "p", "g">>
Img12Upper == <<"1", "2", ".", "J", "P", "G">>
Img7p == <<"7", "p", ".", "j", "p", "g">>
NotesTxt == <<"n", ".", "t", "x", "t">>

\* What can go wrong before the images of an archive are read:
\*   bad_zip        zipfile.ZipFile raises (line 58)
\*   no_metadata    z.open("metadata.json") raises (line 61)
\*   bad_json       json.load raises (line 62)
\*   bad_detection  "detections" holds an element that is no object (line 66)
\*   bad_roughness  "roughness" holds an element that is no object (line 71)
\* An image whose read raises (lines 77-78) has readable = FALSE.
Faults == {"none", "bad_zip", "no_metadata", "bad_json", "bad_detection", "bad_roughness"}

File(name, data, readable) == [name |-> name, data |-> data, readable |-> readable]

Archive(fault, detections, roughness, files) ==
    [fault |-> fault, detections |-> detections, roughness |-> roughness, files |-> files]

DetA == [frame |-> 7, latitude |-> LatA, longitude |-> LonA, class |-> 0]
DetUnknownClass == [frame |-> 12, latitude |-> LatB, longitude |-> LonA, class |-> 4]
DetNoCoords == [frame |-> 7, class |-> 1]
RoughA == [latitude |-> LatB, longitude |-> LonB, magnitude_xy |-> 1]
RoughNoLat == [longitude |-> LonA, magnitude_xy |-> 2]

\* The archives assets/ may hold.
Archives ==
    { Archive("none", <<DetA>>, <<RoughA>>, <<File(Img007, <<1>>, TRUE)>>),
      Archive("none", <<DetUnknownClass, DetNoCoords>>, <<>>,
              <<File(NotesTxt, <<3>>, TRUE), File(Img007, <<2>>, TRUE)>>),
      Archive("none", <<DetNoCoords>>, <<RoughNoLat, RoughA>>, <<>>),
      Archive("none", <<DetA>>, <<RoughNoLat>>, <<>>),
      Archive("bad_zip", <<>>, <<>>, <<>>),
      Archive("no_metadata", <<>>, <<>>, <<File(Img007, <<1>>, TRUE)>>),
      Archive("bad_json", <<>>, <<>>, <<File(Img007, <<1>>, TRUE)>>),
      Archive("bad_detection", <<DetA>>, <<RoughA>>, <<>>),
      Archive("bad_roughness", <<DetA>>, <<RoughA>>, <<>>),
      Archive("none", <<DetA>>, <<RoughA>>,
              <<File(Img007, <<1>>, TRUE), File(Img112, <<2>>, FALSE)>>) }

ArchiveLists == SeqsUpTo(Archives, MaxArchives)

\* One archive whose records lie at freely drawn coordinates: the first k
\* points are detections, the others roughness records.
CenterCoords == {LonA, LatA, LatB} \X {LonA, LonB}

PointDetection(p) == [frame |-> 7, latitude |-> p[1], longitude |-> p[2], class |-> 0]
PointRoughness(p) == [latitude |-> p[1], longitude |-> p[2], magnitude_xy |-> 1]

PointArchive(pts, k) ==
    Archive("none",
            [i \in 1..k |-> PointDetection(pts[i])],
            [i \in 1..(Len(pts) - k) |-> PointRoughness(pts[k + i])],
            <<>>)

CenterArchives ==
    UNION { {PointArchive(pts, k) : k \in 0..Len(pts)} :
              pts \in SeqsUpTo(CenterCoords, MaxPoints) \ {<<>>} }

CenterLists == {<<a>> : a \in CenterArchives}

\* Archives whose image files are drawn freely: one with a detection and up to
\* MaxFiles images, alone or beside one with no record and at most one image.
MatchFiles ==
    {File(n, d, TRUE) : n \in {Img007, Img112, Img12Upper, Img7p}, d \in {<<>>, <<1>>}}

MatchFrames == {7, 12}

MatchQueried ==
    { Archive("none", <<[DetA EXCEPT !.frame = f]>>, <<>>, fs) :
        f \in MatchFrames, fs \in SeqsUpTo(MatchFiles, MaxFiles) }

MatchOther == {Archive("none", <<>>, <<>>, fs) : fs \in SeqsUpTo(MatchFiles, 1)}

MatchLists ==
    {<<a>> : a \in MatchQueried} \cup
    {<<a, b>> : a \in MatchQueried, b \in MatchOther} \cup
    {<<b, a>> : a \in MatchQueried, b \in MatchOther}

----------------------------------------------------------------------------
(* Load all surveys (lines 46-82).                                         *)

\* Lines 53-55.  The sources are io.BytesIO objects (line 38), which have no
\* name, so the identifier is always the positional default.
SurveyName(i) == "Survey_" \o ToString(i)

\* d["survey"] = survey_name (lines 66, 71)
WithSurvey(d, survey_name) ==
    [k \in DOMAIN d \cup {"survey"} |-> IF k = "survey" THEN survey_name ELSE d[k]]

Tag(records, survey_name) ==
    [i \in 1..Len(records) |-> WithSurvey(records[i], survey_name)]

\* Whether the try block gets as far as line 67, and as far as line 72.
ReachesDetections(a) == a.fault \notin {"bad_zip", "no_metadata", "bad_json", "bad_detection"}
ReachesRoughness(a) == ReachesDetections(a) /\ a.fault # "bad_roughness"

\* Line 75.
ImageFiles(a) == SelectSeq(a.files, LAMBDA f : EndsWith(StrLower(f.name), JpgExt))

SourceFails(a) ==
    a.fault # "none" \/ \E f \in Range(ImageFiles(a)) : ~f.readable

\* As ExtendDetections, with the handler of a failed source clearing the list.
ExtendDetectionsOrReset(acc, a, survey_name) ==
    IF SourceFails(a) THEN <<>>
    ELSE IF ReachesDetections(a) THEN acc \o Tag(a.detections, survey_name) ELSE acc

\* As ExtendDetections, with the new records put in front.
ExtendDetectionsInFront(acc, a, survey_name) ==
    IF ReachesDetections(a) THEN Tag(a.detections, survey_name) \o acc ELSE acc

\* Lines 64-67.
ExtendDetections(acc, a, survey_name) ==
    IF ReachesDetections(a) THEN acc \o Tag(a.detections, survey_name) ELSE acc

\* Lines 69-72.
ExtendRoughness(acc, a, survey_name) ==
    IF ReachesRoughness(a) THEN acc \o Tag(a.roughness, survey_name) ELSE acc

\* images_cache[(survey_name, image_file)] = img_bytes (line 79): a dict keeps
\* the place of a key it already holds.
CachePut(cache, survey_name, image_file, img_bytes) ==
    IF \E i \in 1..Len(cache) : cache[i].survey = survey_name /\ cache[i].filename = image_file
    THEN [i \in 1..Len(cache) |->
            IF cache[i].survey = survey_name /\ cache[i].filename = image_file
            THEN [cache[i] EXCEPT !.img = img_bytes] ELSE cache[i]]
    ELSE Append(cache, [survey |-> survey_name, filename |-> image_file, img |-> img_bytes])

\* Lines 76-79: the images are cached in order until one cannot be read.
RECURSIVE CacheFiles(_, _, _)
CacheFiles(cache, survey_name, files) ==
    IF files = <<>> \/ ~Head(files).readable THEN cache
    ELSE CacheFiles(CachePut(cache, survey_name, Head(files).name, Head(files).data),
                    survey_name, Tail(files))

CacheImages(cache, a, survey_name) ==
    IF ReachesRoughness(a) THEN CacheFiles(cache, survey_name, ImageFiles(a)) ELSE cache

\* Lines 81-82.
ReportErrors(errs, a, survey_name) ==
    IF SourceFails(a) THEN Append(errs, survey_name) ELSE errs

NoFrame == [columns |-> {}, rows |-> <<>>]

\* Lines 29-50: one run starts with what assets/ holds.  Listing assets/
\* may fail (lines 39-41).
LoadFrom(lists) ==
    /\ pc = "load"
    /\ \/ /\ pc' = "stop_no_assets"
          /\ UNCHANGED uploaded_zips
       \/ /\ uploaded_zips' \in lists
          /\ pc' = "ingest"
    /\ idx' = 1
    /\ UNCHANGED <<all_detections, all_roughness, images_cache, errors, exception,
                   det_df, rough_df, selected_surveys, show_detections,
                   show_roughness, location, row, popups>>

LoadAssets == LoadFrom(ArchiveLists)

LoadCenterAssets == LoadFrom(CenterLists)

LoadMatchAssets == LoadFrom(MatchLists)

\* Lines 52-82: one iteration of the loop, the try block and its handler.
IngestSource ==
    /\ pc = "ingest"
    /\ idx <= Len(uploaded_zips)
    /\ LET a == uploaded_zips[idx]
           survey_name == SurveyName(idx)
       IN  /\ all_detections' = ExtendDetections(all_detections, a, survey_name)
           /\ all_roughness' = ExtendRoughness(all_roughness, a, survey_name)
           /\ images_cache' = CacheImages(images_cache, a, survey_name)
           /\ errors' = ReportErrors(errors, a, survey_name)
    /\ idx' = idx + 1
    /\ UNCHANGED <<pc, uploaded_zips, exception, det_df, rough_df, selected_surveys,
                   show_detections, show_roughness, location, row, popups>>

----------------------------------------------------------------------------
(* Build DataFrames (lines 87-101).                                        *)

\* pd.DataFrame(records): the columns are the keys any record has, and a
\* record without a key has NaN in that column.
DataFrame(records) ==
    [columns |-> UNION {DOMAIN records[i] : i \in 1..Len(records)},
     rows |-> [i \in 1..Len(records) |-> [index |-> i - 1, data |-> records[i]]]]

\* DataFrame.empty: no rows or no columns.
Empty(df) == df.rows = <<>> \/ df.columns = {}

\* One cell of Series.map(CLASS_MAP): a code that is no key of the dict, and a
\* NaN, map to NaN.
MapLabel(data) ==
    IF "class" \in DOMAIN data /\ data["class"] \in DOMAIN CLASS_MAP
    THEN [data EXCEPT !["class"] = CLASS_MAP[data["class"]]]
    ELSE [k \in DOMAIN data \ {"class"} |-> data[k]]

\* det_df["class"] = det_df["class"].map(CLASS_MAP) (line 89)
MapClass(df) ==
    [df EXCEPT !.rows = [i \in 1..Len(df.rows) |->
                            [df.rows[i] EXCEPT !.data = MapLabel(df.rows[i].data)]]]

CoordColumns == {"latitude", "longitude"}

HasCoords(r) == CoordColumns \subseteq DOMAIN r.data

\* df.dropna(subset=["latitude", "longitude"]) (lines 95, 97), for a frame
\* that has both columns.
DropNa(df) == [df EXCEPT !.rows = SelectSeq(df.rows, HasCoords)]

\* What lines 87-101 reach: the next position, the exception and the frames
\* assigned so far.  Indexing a missing column (line 89) and dropna on a
\* missing column (lines 95, 97) raise KeyError.
BuildOutcome(detections, roughness) ==
    LET d0 == DataFrame(detections)
        r0 == DataFrame(roughness)
        d1 == IF Empty(d0) THEN d0 ELSE MapClass(d0)
        d2 == IF Empty(d1) THEN d1 ELSE DropNa(d1)
        r1 == IF Empty(r0) THEN r0 ELSE DropNa(r0)
    IN  IF ~Empty(d0) /\ "class" \notin d0.columns
        THEN [pc |-> "crashed", exception |-> "KeyError: 'class'",
              det_df |-> d0, rough_df |-> NoFrame]
        ELSE IF ~Empty(d1) /\ ~(CoordColumns \subseteq d1.columns)
        THEN [pc |-> "crashed", exception |-> "KeyError: detections dropna",
              det_df |-> d1, rough_df |-> r0]
        ELSE IF ~Empty(r0) /\ ~(CoordColumns \subseteq r0.columns)
        THEN [pc |-> "crashed", exception |-> "KeyError: roughness dropna",
              det_df |-> d2, rough_df |-> r0]
        ELSE IF Empty(d2) /\ Empty(r1)
        THEN [pc |-> "stop_no_data", exception |-> "", det_df |-> d2, rough_df |-> r1]
        ELSE [pc |-> "filter", exception |-> "", det_df |-> d2, rough_df |-> r1]

BuildDataFrames ==
    /\ pc = "ingest"
    /\ idx > Len(uploaded_zips)
    /\ LET out == BuildOutcome(all_detections, all_roughness)
       IN  /\ pc' = out.pc
           /\ exception' = out.exception
           /\ det_df' = out.det_df
           /\ rough_df' = out.rough_df
    /\ UNCHANGED <<uploaded_zips, idx, all_detections, all_roughness, images_cache,
                   errors, selected_surveys, show_detections, show_roughness,
                   location, row, popups>>

----------------------------------------------------------------------------
(* Sidebar filters (lines 106-132).                                        *)

\* df["survey"].unique() if "survey" in df.columns else [] (lines 106-107)
Surveys(df) ==
    IF "survey" \in df.columns
    THEN {df.rows[i].data["survey"] : i \in 1..Len(df.rows)}
    ELSE {}

\* df[df["survey"].isin(selected)] (lines 121, 123)
IsIn(df, selected) ==
    [df EXCEPT !.rows = SelectSeq(df.rows, LAMBDA r : r.data["survey"] \in selected)]

\* df.iloc[0:0] (lines 126, 128)
NoRows(df) == [df EXCEPT !.rows = <<>>]

\* As ApplyFilter, with the visibility flag ignored.
ApplyFilterAlwaysShown(df, selected, show) ==
    IF Empty(df) THEN df ELSE IsIn(df, selected)

\* Lines 120-128 for one category.
ApplyFilter(df, selected, show) ==
    LET kept == IF Empty(df) THEN df ELSE IsIn(df, selected)
    IN  IF show THEN kept ELSE NoRows(kept)

\* The multiselect offers all_surveys (lines 108-114); the user picks any
\* subset and sets the two checkboxes (lines 116-117).
ApplyFilters ==
    /\ pc = "filter"
    /\ \E selected \in SUBSET (Surveys(det_df) \cup Surveys(rough_df)),
          show_det \in BOOLEAN, show_rough \in BOOLEAN :
          /\ selected_surveys' = selected
          /\ show_detections' = show_det
          /\ show_roughness' = show_rough
          /\ det_df' = ApplyFilter(det_df, selected, show_det)
          /\ rough_df' = ApplyFilter(rough_df, selected, show_rough)
    /\ pc' = IF Empty(det_df') /\ Empty(rough_df') THEN "stop_no_selection" ELSE "center"
    /\ UNCHANGED <<uploaded_zips, idx, all_detections, all_roughness, images_cache,
                   errors, exception, location, row, popups>>

----------------------------------------------------------------------------
(* Map center (lines 137-152).                                             *)

Column(df, c) == [i \in 1..Len(df.rows) |-> df.rows[i].data[c]]

\* Lines 137-145: the column of the detections, then that of the roughness.
Combined(det, rough, c) ==
    (IF Empty(det) THEN <<>> ELSE Column(det, c)) \o
    (IF Empty(rough) THEN <<>> ELSE Column(rough, c))

\* As Center, with the mean of the two categories' means where both have rows.
CenterPerCategory(det, rough) ==
    IF Empty(det) \/ Empty(rough)
    THEN <<FloatMean(Combined(det, rough, "latitude")),
           FloatMean(Combined(det, rough, "longitude"))>>
    ELSE <<FloatMean(<<FloatMean(Column(det, "latitude")), FloatMean(Column(rough, "latitude"))>>),
           FloatMean(<<FloatMean(Column(det, "longitude")), FloatMean(Column(rough, "longitude"))>>)>>

\* Lines 151-152.
Center(det, rough) ==
    <<FloatMean(Combined(det, rough, "latitude")),
      FloatMean(Combined(det, rough, "longitude"))>>

MapCenter ==
    /\ pc = "center"
    /\ IF Combined(det_df, rough_df, "latitude") = <<>>
          \/ Combined(det_df, rough_df, "longitude") = <<>>
       THEN pc' = "stop_no_coordinates" /\ UNCHANGED location
       ELSE pc' = "markers" /\ location' = Center(det_df, rough_df)
    /\ row' = 1
    /\ UNCHANGED <<uploaded_zips, idx, all_detections, all_roughness, images_cache,
                   errors, exception, det_df, rough_df, selected_surveys,
                   show_detections, show_roughness, popups>>

----------------------------------------------------------------------------
(* Add detections (lines 172-199).                                         *)

\* As Matches, without the comparison of the survey identifiers.
MatchesAnySurvey(survey, filename, survey_name, frame_num_str) ==
    EndsWith(RStrip(StrLower(filename), {".", "j", "p", "g"}), frame_num_str)

\* The test of line 184.
Matches(survey, filename, survey_name, frame_num_str) ==
    /\ survey = survey_name
    /\ EndsWith(RStrip(StrLower(filename), {".", "j", "p", "g"}), frame_num_str)

\* Lines 181-186: the position in the cache of the first entry that matches,
\* 0 when none does (img_bytes stays None).
MatchIndex(cache, survey_name, frame_num_str) ==
    LET hits == {i \in 1..Len(cache) :
                    Matches(cache[i].survey, cache[i].filename, survey_name, frame_num_str)}
    IN  IF hits = {} THEN 0 ELSE CHOOSE i \in hits : \A j \in hits : i <= j

\* Lines 188-193: None and b"" are both falsy.
Popup(cache, r) ==
    LET m == MatchIndex(cache, r.data["survey"], Str(r.data["frame"]))
    IN  IF m # 0 /\ cache[m].img # <<>>
        THEN [index |-> r.index, matched |-> m, missing |-> FALSE, img |-> cache[m].img]
        ELSE [index |-> r.index, matched |-> m, missing |-> TRUE, img |-> <<>>]

\* One iteration of the loop of line 173.  A frame without the column raises
\* KeyError (line 174), and int(NaN) raises ValueError (line 182).
AddDetectionMarker ==
    /\ pc = "markers"
    /\ row <= Len(det_df.rows)
    /\ IF "frame" \in DOMAIN det_df.rows[row].data
       THEN /\ popups' = Append(popups, Popup(images_cache, det_df.rows[row]))
            /\ row' = row + 1
            /\ UNCHANGED <<pc, exception>>
       ELSE /\ pc' = "crashed"
            /\ exception' = IF "frame" \in det_df.columns
                            THEN "ValueError: int(NaN)" ELSE "KeyError: 'frame'"
            /\ UNCHANGED <<row, popups>>
    /\ UNCHANGED <<uploaded_zips, idx, all_detections, all_roughness, images_cache,
                   errors, det_df, rough_df, selected_surveys, show_detections,
                   show_roughness, location>>

\* Lines 204-241: the roughness markers, the map and the tables are shown.
ShowMap ==
    /\ pc = "markers"
    /\ row > Len(det_df.rows)
    /\ pc' = "done"
    /\ UNCHANGED <<uploaded_zips, idx, all_detections, all_roughness, images_cache,
                   errors, exception, det_df, rough_df, selected_surveys,
                   show_detections, show_roughness, location, row, popups>>

----------------------------------------------------------------------------
(* The session.                                                            *)

Ended == pc \in {"done", "crashed", "stop_no_assets", "stop_no_data",
                 "stop_no_selection", "stop_no_coordinates"}

\* Streamlit runs the script again; only st.session_state is kept.
Rerun ==
    /\ Ended
    /\ pc' = "load"
    /\ uploaded_zips' = <<>>
    /\ idx' = 1
    /\ all_detections' = <<>>
    /\ all_roughness' = <<>>
    /\ errors' = <<>>
    /\ exception' = ""
    /\ det_df' = NoFrame
    /\ rough_df' = NoFrame
    /\ selected_surveys' = {}
    /\ show_detections' = TRUE
    /\ show_roughness' = TRUE
    /\ location' = <<>>
    /\ row' = 1
    /\ popups' = <<>>
    /\ UNCHANGED images_cache

Init ==
    /\ pc = "load"
    /\ uploaded_zips = <<>>
    /\ idx = 1
    /\ all_detections = <<>>
    /\ all_roughness = <<>>
    /\ images_cache = <<>>
    /\ errors = <<>>
    /\ exception = ""
    /\ det_df = NoFrame
    /\ rough_df = NoFrame
    /\ selected_surveys = {}
    /\ show_detections = TRUE
    /\ show_roughness = TRUE
    /\ location = <<>>
    /\ row = 1
    /\ popups = <<>>

Next ==
    \/ LoadAssets
    \/ IngestSource
    \/ BuildDataFrames
    \/ ApplyFilters
    \/ MapCenter
    \/ AddDetectionMarker
    \/ ShowMap
    \/ Rerun

Spec == Init /\ [][Next]_vars

\* One run over an archive with freely drawn coordinates.
NextCenter ==
    \/ LoadCenterAssets
    \/ IngestSource
    \/ BuildDataFrames
    \/ ApplyFilters
    \/ MapCenter
    \/ AddDetectionMarker
    \/ ShowMap

SpecCenter == Init /\ [][NextCenter]_vars

\* One run over archives with freely drawn image files.
NextMatch ==
    \/ LoadMatchAssets
    \/ IngestSource
    \/ BuildDataFrames
    \/ ApplyFilters
    \/ MapCenter
    \/ AddDetectionMarker
    \/ ShowMap

SpecMatch == Init /\ [][NextMatch]_vars

----------------------------------------------------------------------------
(* Properties of the ingestion loop.                                       *)

AfterIngestion == pc \notin {"load", "ingest"}

\* The accumulated records tagged with the survey of source i.
DetectionsOf(i) == SelectSeq(all_detections, LAMBDA r : r["survey"] = SurveyName(i))
RoughnessOf(i) == SelectSeq(all_roughness, LAMBDA r : r["survey"] = SurveyName(i))

\* C1: after the loop, no detection or roughness record of a source whose
\* processing failed anywhere in the try block is among the accumulated ones.
C1_FailedSourceExcluded ==
    AfterIngestion =>
        \A i \in 1..Len(uploaded_zips) :
            SourceFails(uploaded_zips[i]) =>
                DetectionsOf(i) = <<>> /\ RoughnessOf(i) = <<>>

\* d as the loop stores it for source i: the same fields, and the survey.
Tagged(r, d, i) ==
    /\ DOMAIN r = DOMAIN d \cup {"survey"}
    /\ r["survey"] = SurveyName(i)
    /\ \A k \in DOMAIN d : r[k] = d[k]

SameRecords(stored, given, i) ==
    /\ Len(stored) = Len(given)
    /\ \A j \in 1..Len(given) : Tagged(stored[j], given[j], i)

\* C2: a failure of one source is reported for that source, the sources after
\* it are still processed (the loop reaches its end, and a source that does
\* not fail has its records accumulated), and no step of the loop changes the
\* records accumulated before it.
C2_FailureIsolated ==
    /\ [](\A i \in 1..Len(uploaded_zips) :
            /\ (i < idx /\ SourceFails(uploaded_zips[i])) => SurveyName(i) \in Range(errors)
            /\ (AfterIngestion /\ ~SourceFails(uploaded_zips[i])) =>
                   /\ SameRecords(DetectionsOf(i), uploaded_zips[i].detections, i)
                   /\ SameRecords(RoughnessOf(i), uploaded_zips[i].roughness, i))
    /\ [](AfterIngestion => idx = Len(uploaded_zips) + 1)
    /\ [][pc = "ingest" => /\ IsPrefix(all_detections, all_detections')
                           /\ IsPrefix(all_roughness, all_roughness')]_vars

\* A failing source was reported and the source after it was processed: its
\* records are among the accumulated ones.
C2_Witness ==
    /\ AfterIngestion
    /\ \E i \in 1..Len(uploaded_zips) :
          /\ SourceFails(uploaded_zips[i])
          /\ SurveyName(i) \in Range(errors)
          /\ \E j \in (i + 1)..Len(uploaded_zips) :
                /\ ~SourceFails(uploaded_zips[j])
                /\ DetectionsOf(j) # <<>>
                /\ RoughnessOf(j) # <<>>

RECURSIVE CountBefore(_, _)
CountBefore(i, field) ==
    IF i = 1 THEN 0 ELSE CountBefore(i - 1, field) + Len(uploaded_zips[i - 1][field])

\* C8: when every archive is read successfully, the accumulated detections
\* are the archives' detection lists one after the other, in input order, each
\* record tagged with its archive's survey identifier, and likewise the
\* roughness records; so each merged count is the sum of the archives' counts.
C8_MergeIsConcatenation ==
    (AfterIngestion /\ \A i \in 1..Len(uploaded_zips) : ~SourceFails(uploaded_zips[i])) =>
        /\ Len(all_detections) = CountBefore(Len(uploaded_zips) + 1, "detections")
        /\ Len(all_roughness) = CountBefore(Len(uploaded_zips) + 1, "roughness")
        /\ \A i \in 1..Len(uploaded_zips) :
              /\ \A j \in 1..Len(uploaded_zips[i].detections) :
                    Tagged(all_detections[CountBefore(i, "detections") + j],
                           uploaded_zips[i].detections[j], i)
              /\ \A j \in 1..Len(uploaded_zips[i].roughness) :
                    Tagged(all_roughness[CountBefore(i, "roughness") + j],
                           uploaded_zips[i].roughness[j], i)

\* Two archives were read successfully, the first with two detections.
C8_Witness ==
    /\ AfterIngestion
    /\ Len(uploaded_zips) >= 2
    /\ \A i \in 1..Len(uploaded_zips) : ~SourceFails(uploaded_zips[i])
    /\ Len(uploaded_zips[1].detections) = 2
    /\ Len(uploaded_zips[2].detections) >= 1
    /\ Len(all_roughness) >= 1

\* C9: over the runs of one session the image cache only grows: a key it holds
\* stays, and the bytes under a key never change.
C9_CacheOnlyGrows ==
    [][\A i \in 1..Len(images_cache) :
          \E j \in 1..Len(images_cache') :
              /\ images_cache'[j].survey = images_cache[i].survey
              /\ images_cache'[j].filename = images_cache[i].filename
              /\ images_cache'[j].img = images_cache[i].img]_vars

----------------------------------------------------------------------------
(* Properties of the normalization.                                        *)

\* Lines 87-101 ran to their end: the frames hold the normalized records.
Normalized == pc \in {"filter", "stop_no_data"}

NormalizationRaised ==
    pc = "crashed" /\ exception \in {"KeyError: 'class'", "KeyError: detections dropna",
                                     "KeyError: roughness dropna"}

UnknownCode(d) == "class" \in DOMAIN d /\ d["class"] \notin {0, 1, 2, 3}

\* C4: a detection with a class code outside {0,1,2,3} makes normalization
\* raise or report a labeling error, and no detection is in the normalized
\* output without a label.
C4_UnknownCodeRejected ==
    /\ (AfterIngestion /\ \E i \in 1..Len(all_detections) : UnknownCode(all_detections[i]))
          => NormalizationRaised
    /\ Normalized => \A i \in 1..Len(det_df.rows) : "class" \in DOMAIN det_df.rows[i].data

Indexes(df) == [i \in 1..Len(df.rows) |-> df.rows[i].index]

\* The 0-based positions of the records that have both coordinates.
RECURSIVE Located(_, _)
Located(records, n) ==
    IF n = 0 THEN <<>>
    ELSE IF {"latitude", "longitude"} \subseteq DOMAIN records[n]
         THEN Append(Located(records, n - 1), n - 1)
         ELSE Located(records, n - 1)

\* C5: normalization completes, and its output holds exactly the accumulated
\* records that have both a latitude and a longitude, also when no record of a
\* sequence has the field.
C5_KeepsExactlyLocated ==
    /\ ~NormalizationRaised
    /\ Normalized =>
          /\ Indexes(det_df) = Located(all_detections, Len(all_detections))
          /\ Indexes(rough_df) = Located(all_roughness, Len(all_roughness))

----------------------------------------------------------------------------
(* Properties of the filter.                                               *)

Restricted(rows, selected, show) ==
    IF show THEN SelectSeq(rows, LAMBDA r : r.data["survey"] \in selected) ELSE <<>>

\* C6: the filter never fails and gives, for each category, exactly the rows
\* whose survey is selected, in their order, and no row when the category's
\* flag is off.
C6_FilterRestricts ==
    [][pc = "filter" =>
          /\ pc' \in {"center", "stop_no_selection"}
          /\ det_df'.rows = Restricted(det_df.rows, selected_surveys', show_detections')
          /\ rough_df'.rows = Restricted(rough_df.rows, selected_surveys', show_roughness')]_vars

\* The roughness is hidden although its survey is selected, and the
\* detections are restricted to one of two surveys.
C6_Witness ==
    /\ pc = "center"
    /\ ~show_roughness
    /\ show_detections
    /\ rough_df.rows = <<>>
    /\ \E i \in 1..Len(all_roughness) :
          /\ CoordColumns \subseteq DOMAIN all_roughness[i]
          /\ all_roughness[i]["survey"] \in selected_surveys
    /\ det_df.rows # <<>>
    /\ \E i \in 1..Len(all_detections) :
          /\ CoordColumns \subseteq DOMAIN all_detections[i]
          /\ all_detections[i]["survey"] \notin selected_surveys

----------------------------------------------------------------------------
(* Properties of the map center.                                           *)

CenterComputed == pc \in {"markers", "done"}

\* The coordinates of the filtered detections, then of the filtered roughness.
Shown(c) ==
    [i \in 1..Len(det_df.rows) |-> det_df.rows[i].data[c]] \o
    [i \in 1..Len(rough_df.rows) |-> rough_df.rows[i].data[c]]

Within(x, s) == SeqMin(s) <= x /\ x <= SeqMax(s)

NoCenterWhenEmpty ==
    /\ CenterComputed => (det_df.rows # <<>> \/ rough_df.rows # <<>>)
    /\ pc = "stop_no_selection" =>
          /\ det_df.rows = <<>> /\ rough_df.rows = <<>>
          /\ location = <<>>

\* C7 as stated: the center is the mean of the coordinates of both filtered
\* sequences together and lies between their minimum and their maximum; with
\* both sequences empty no center is computed and rendering stops.
C7_CenterWithinBounds ==
    /\ CenterComputed =>
          /\ location[1] = FloatMean(Shown("latitude"))
          /\ Within(location[1], Shown("latitude"))
          /\ location[2] = FloatMean(Shown("longitude"))
          /\ Within(location[2], Shown("longitude"))
    /\ NoCenterWhenEmpty

\* C7 amended: the center is the floating-point mean (the rounded sum divided
\* by the count, rounded) of the coordinates of both filtered sequences
\* together; it lies between their minimum and their maximum whenever the sum
\* is computed without rounding error.
C7_CenterIsRoundedMean ==
    /\ CenterComputed =>
          /\ location[1] = FloatMean(Shown("latitude"))
          /\ FloatSum(Shown("latitude")) = ExactSum(Shown("latitude"))
                => Within(location[1], Shown("latitude"))
          /\ location[2] = FloatMean(Shown("longitude"))
          /\ FloatSum(Shown("longitude")) = ExactSum(Shown("longitude"))
                => Within(location[2], Shown("longitude"))
    /\ NoCenterWhenEmpty

\* A center was computed over detections and roughness together, with a sum
\* that is exact and a mean that no category alone has.
C7_Witness ==
    /\ CenterComputed
    /\ det_df.rows # <<>>
    /\ rough_df.rows # <<>>
    /\ FloatSum(Shown("latitude")) = ExactSum(Shown("latitude"))
    /\ location[1] # FloatMean([i \in 1..Len(det_df.rows) |-> det_df.rows[i].data["latitude"]])
    /\ location[1] # FloatMean([i \in 1..Len(rough_df.rows) |-> rough_df.rows[i].data["latitude"]])

----------------------------------------------------------------------------
(* Properties of the frame matcher.                                        *)

\* The name without its extension.
Stem(filename) == SubSeq(filename, 1, Len(filename) - Len(JpgExt))

\* C3: the image selected for a detection is cached under the detection's
\* own survey identifier.
C3_MatchWithinSurvey ==
    \A k \in 1..Len(popups) :
        popups[k].matched # 0 =>
            images_cache[popups[k].matched].survey = det_df.rows[k].data["survey"]

\* An image was selected while the cache held, under another survey, a file
\* whose name ends with the same frame number.
C3_Witness ==
    \E k \in 1..Len(popups) :
        /\ popups[k].matched # 0
        /\ ~popups[k].missing
        /\ \E i \in 1..Len(images_cache) :
              /\ images_cache[i].survey # det_df.rows[k].data["survey"]
              /\ i < popups[k].matched
              /\ EndsWith(Stem(images_cache[i].filename), Str(det_df.rows[k].data["frame"]))

\* C10: the marker shows an image exactly when the cache holds, under the
\* detection's survey, a file named <stem>.jpg (in any case) whose stem ends
\* with the decimal digits of the frame number; otherwise it shows "missing".
C10_MatchIffStemEndsWithFrame ==
    \A k \in 1..Len(popups) :
        ~popups[k].missing <=>
            \E i \in 1..Len(images_cache) :
                /\ images_cache[i].survey = det_df.rows[k].data["survey"]
                /\ EndsWith(StrLower(images_cache[i].filename), JpgExt)
                /\ EndsWith(Stem(images_cache[i].filename), Str(det_df.rows[k].data["frame"]))

=============================================================================
